---------------------------- MODULE Spec2Model ----------------------------
(***************************************************************************)
(* A model of the CFP idea generator (cfp_generator.py, app.py).           *)
(*                                                                         *)
(* Strings are TLA+ strings, read one character at a time with SubSeq, so  *)
(* that str.lower, str.title, str.format and the substring test are        *)
(* computed as Python computes them.  An Optional[str] is a set holding at *)
(* most one string: {} is None.                                            *)
(*                                                                         *)
(* The random module is modelled by a random source: a tape of TapeLen     *)
(* values below RandBound, read cyclically.  randbelow(n) is the next      *)
(* value modulo n.  random.shuffle is a separate nondeterministic step.    *)
(***************************************************************************)
EXTENDS Integers, Sequences, FiniteSets, TLC

VARIABLES
    profile,        \* the UserProfile passed to generate_ideas
    count,          \* the count passed to generate_ideas
    tape,           \* the random source
    draws,          \* how many values of the random source were consumed
    pc,             \* the position inside the running function
    all_topics,     \* generate_ideas: all_topics
    ideas,          \* generate_ideas: ideas (the candidate pool)
    result,         \* what generate_ideas returned
    raised,         \* TRUE once a statement of generate_ideas raised
    title,          \* generate_abstract: title
    abstract,       \* what generate_abstract returned
    takeaways,      \* what generate_key_takeaways returned
    reasons,        \* what generate_fit_reasons returned
    api_key,        \* os.environ.get("OPENAI_API_KEY")
    chat_log,       \* the calls of chat_with_ai so far, with their outcomes
    inputs,         \* the lines read from input() so far
    speaker,        \* collect_user_input: name
    conf_name,      \* select_conference: conf_name
    sel_track,      \* select_conference: track
    sel_format,     \* select_conference: talk_format
    session_state,  \* st.session_state: a function from its keys to values
    notice,         \* what the last script run showed besides the page
    since_select,   \* the chat messages appended since an idea was selected
    discarded,      \* how many chat messages the last selection removed
    steps           \* how many user actions the session has seen

\* the state of generate_ideas and generate_abstract
ideaVars == <<profile, count, tape, draws, all_topics, ideas, result, raised,
              title, abstract>>

\* the state of the detail page functions of app.py
appVars == <<takeaways, reasons, api_key, chat_log>>

\* the state of the interactive input functions
inputVars == <<inputs, speaker, conf_name, sel_track, sel_format>>

\* the state of the Streamlit session
uiVars == <<session_state, notice, since_select, discarded, steps>>

vars == <<profile, count, tape, draws, pc, all_topics, ideas, result, raised,
          title, abstract, takeaways, reasons, api_key, chat_log,
          inputs, speaker, conf_name, sel_track, sel_format,
          session_state, notice, since_select, discarded, steps>>

\* no detail page function has run
AppIdle ==
    /\ takeaways = <<>>
    /\ reasons = <<>>
    /\ api_key = {}
    /\ chat_log = <<>>

\* no Streamlit session runs
UiIdle ==
    /\ session_state = <<>>
    /\ notice = "none"
    /\ since_select = <<>>
    /\ discarded = 0
    /\ steps = 0

\* no input() was read
InputIdle ==
    /\ inputs = <<>>
    /\ speaker = ""
    /\ conf_name = ""
    /\ sel_track = {}
    /\ sel_format = ""

---------------------------------------------------------------------------
(* Bounds of the model.                                                    *)

\* Length of the cyclic random tape.
TapeLen == 3

\* Each value of the random tape is below RandBound.
RandBound == 2

---------------------------------------------------------------------------
(* Python strings.                                                         *)

LowerChars == "abcdefghijklmnopqrstuvwxyz"

UpperChars == "ABCDEFGHIJKLMNOPQRSTUVWXYZ"

CharAt(s, i) == SubSeq(s, i, i)

\* c.lower() for one character
LowerOf ==
    [c \in {CharAt(UpperChars, i) : i \in 1..26} |->
        CharAt(LowerChars, CHOOSE i \in 1..26 : CharAt(UpperChars, i) = c)]

\* c.upper() for one character
UpperOf ==
    [c \in {CharAt(LowerChars, i) : i \in 1..26} |->
        CharAt(UpperChars, CHOOSE i \in 1..26 : CharAt(LowerChars, i) = c)]

IsCased(c) == c \in DOMAIN LowerOf \/ c \in DOMAIN UpperOf

ToLowerChar(c) == IF c \in DOMAIN LowerOf THEN LowerOf[c] ELSE c

ToUpperChar(c) == IF c \in DOMAIN UpperOf THEN UpperOf[c] ELSE c

RECURSIVE LowerFrom(_, _)
LowerFrom(s, i) ==
    IF i > Len(s) THEN ""
    ELSE ToLowerChar(CharAt(s, i)) \o LowerFrom(s, i + 1)

\* s.lower()
Lower(s) == LowerFrom(s, 1)

RECURSIVE TitleFrom(_, _, _)
TitleFrom(s, i, previous_is_cased) ==
    IF i > Len(s) THEN ""
    ELSE LET c == CharAt(s, i)
         IN  (IF previous_is_cased THEN ToLowerChar(c) ELSE ToUpperChar(c))
                 \o TitleFrom(s, i + 1, IsCased(c))

\* s.title(): a cased character is upper-cased after an uncased one (or at
\* the start) and lower-cased after a cased one.
Title(s) == TitleFrom(s, 1, FALSE)

\* needle in hay
Contains(hay, needle) ==
    \E i \in 1..(Len(hay) - Len(needle) + 1) :
        SubSeq(hay, i, i + Len(needle) - 1) = needle

RECURSIVE FormatFrom(_, _, _)
FormatFrom(template, i, kwargs) ==
    IF i > Len(template) THEN ""
    ELSE IF CharAt(template, i) = "{"
         THEN LET j == CHOOSE j \in (i + 1)..Len(template) :
                          /\ CharAt(template, j) = "}"
                          /\ \A k \in (i + 1)..(j - 1) : CharAt(template, k) # "}"
              IN  kwargs[SubSeq(template, i + 1, j - 1)]
                      \o FormatFrom(template, j + 1, kwargs)
         ELSE CharAt(template, i) \o FormatFrom(template, i + 1, kwargs)

\* template.format(**kwargs): every {name} is replaced by kwargs[name]
Format(template, kwargs) == FormatFrom(template, 1, kwargs)

\* Optional[str]
None == {}

Some(s) == {s}

\* the truth value of an Optional[str]: None and "" are false
Truthy(opt) == opt # None /\ opt # Some("")

\* the string of a value that is set
Get(opt) == CHOOSE s \in opt : TRUE

\* f"{opt}"
Str(opt) == IF opt = None THEN "None" ELSE Get(opt)

---------------------------------------------------------------------------
(* The template tables of cfp_generator.py.                                *)

ANGLES == <<
    "lessons learned from",
    "the unexpected benefits of",
    "common mistakes in",
    "a beginner's journey into",
    "scaling challenges with",
    "the future of",
    "demystifying",
    "beyond the basics of",
    "real-world applications of",
    "the hidden complexity of",
    "rethinking",
    "what nobody tells you about",
    "a deep dive into",
    "practical tips for",
    "the evolution of" >>

FORMATS ==
    ("talk" :> <<
        "A {duration}-minute exploration of {topic}",
        "Case study: {topic}",
        "From zero to hero: {topic}",
        "{topic}: A practitioner's perspective",
        "The art and science of {topic}" >>)
    @@ ("workshop" :> <<
        "Hands-on {topic}: Build your first {artifact}",
        "Workshop: Mastering {topic} in 90 minutes",
        "Interactive session: {topic} for teams",
        "From theory to practice: {topic} workshop",
        "Build, break, learn: {topic}" >>)
    @@ ("tutorial" :> <<
        "Tutorial: {topic} from scratch",
        "Step-by-step guide to {topic}",
        "Building with {topic}: A hands-on tutorial",
        "{topic} bootcamp" >>)
    @@ ("lightning" :> <<
        "5 things I wish I knew about {topic}",
        "{topic} in 5 minutes",
        "Quick wins with {topic}",
        "The one thing about {topic} that changed everything",
        "{topic}: A lightning tour" >>)
    @@ ("chalk talk" :> <<
        "Architecture deep dive: {topic}",
        "Whiteboard session: Designing {topic}",
        "Interactive discussion: {topic} patterns" >>)
    @@ ("poster" :> <<
        "Visualizing {topic}",
        "{topic}: A visual guide" >>)

CONNECTORS == <<
    "meets",
    "for",
    "in the age of",
    "through the lens of",
    "powered by",
    "without",
    "beyond",
    "reimagined with" >>

AUDIENCE_HOOKS ==
    ("beginners" :> <<"getting started", "fundamentals", "first steps", "introduction to">>)
    @@ ("intermediate" :> <<"leveling up", "best practices", "patterns and antipatterns", "practical">>)
    @@ ("advanced" :> <<"deep dive", "internals", "edge cases", "advanced techniques">>)
    @@ ("mixed" :> <<"for everyone", "from basics to advanced", "comprehensive guide", "all levels">>)

\* the lead-in phrases of the project-based stories
STORY_ANGLES == <<"How we", "Why we", "What we learned when we", "The story of how we">>

\* the topics used when the speaker entered none
DEFAULT_TOPICS == <<"technology", "software development", "best practices">>

\* the two durations of a talk
TALK_DURATIONS == <<30, 45>>

\* the duration of every other format
OTHER_DURATION == 90

\* d.get(key, default)
DictGet(d, key, default) == IF key \in DOMAIN d THEN d[key] ELSE default

\* UserProfile(...)
UserProfile(name, expertise_areas, recent_projects, interests, target_audience, conference_name, conference_track, talk_format) ==
    [name |-> name,
     expertise_areas |-> expertise_areas,
     recent_projects |-> recent_projects,
     interests |-> interests,
     target_audience |-> target_audience,
     conference_name |-> conference_name,
     conference_track |-> conference_track,
     talk_format |-> talk_format]

Min(a, b) == IF a <= b THEN a ELSE b

\* s[:n]
Prefix(s, n) == SubSeq(s, 1, Min(n, Len(s)))

---------------------------------------------------------------------------
(* The random source.                                                      *)

Tapes == [1..TapeLen -> 0..(RandBound - 1)]

\* random's randbelow(n), for the d-th value of the random source
Randbelow(n, d) == tape[(d % Len(tape)) + 1] % n

\* random.choice(seq), reading the d-th value
Choice(seq, d) == seq[Randbelow(Len(seq), d) + 1]

\* random.sample(population, 2), reading the d-th and (d+1)-th values: the
\* first pick is taken out of the pool (the last entry moves into its
\* place) before the second pick
Sample2(population, d) ==
    LET n == Len(population)
        j0 == Randbelow(n, d) + 1
        pool == [population EXCEPT ![j0] = population[n]]
        j1 == Randbelow(n - 1, d + 1) + 1
    IN  <<population[j0], pool[j1]>>

RECURSIVE Reverse(_)
Reverse(s) == IF s = <<>> THEN <<>> ELSE Append(Reverse(Tail(s)), Head(s))

Rotate(s, k) == SubSeq(s, k + 1, Len(s)) \o SubSeq(s, 1, k)

\* The outcomes of random.shuffle(s) the model follows: s cut at any
\* position, and s reversed.
ShuffleOutcomes(s) ==
    {Rotate(s, k) : k \in 0..(Len(s) - 1)} \cup {Reverse(s)}

---------------------------------------------------------------------------
(* generate_ideas                                                          *)

Idea(idea_title, type, topic) == [title |-> idea_title, type |-> type, topic |-> topic]

\* Variant: no default topics.
AllTopicsNoDefault(p) == p.expertise_areas \o p.interests

\* Variant: the default topics are always added.
AllTopicsPlusDefaults(p) == p.expertise_areas \o p.interests \o DEFAULT_TOPICS

\* all_topics, with the default topics when the speaker entered none
AllTopics(p) ==
    LET entered == p.expertise_areas \o p.interests
    IN  IF entered = <<>> THEN DEFAULT_TOPICS ELSE entered

\* Strategy 1: n runs of angle + topic, from the d-th random value on
RECURSIVE AngleBased(_, _, _)
AngleBased(topics, n, d) ==
    IF n = 0 THEN <<>>
    ELSE LET topic == Choice(topics, d)
             angle == Choice(ANGLES, d + 1)
         IN  <<Idea(Title(angle) \o " " \o topic, "angle-based", topic)>>
                 \o AngleBased(topics, n - 1, d + 2)

\* Strategy 2: n runs of two sampled topics and a connector
RECURSIVE CrossPollination(_, _, _)
CrossPollination(topics, n, d) ==
    IF n = 0 THEN <<>>
    ELSE LET two == Sample2(topics, d)
             connector == Choice(CONNECTORS, d + 2)
         IN  <<Idea(Title(two[1]) \o " " \o connector \o " " \o two[2],
                    "cross-pollination",
                    two[1] \o " + " \o two[2])>>
                 \o CrossPollination(topics, n - 1, d + 3)

\* Variant: two independent choices instead of a sample, with any topic.
RECURSIVE CrossPollinationChoices(_, _, _)
CrossPollinationChoices(topics, n, d) ==
    IF n = 0 \/ topics = <<>> THEN <<>>
    ELSE LET two == <<Choice(topics, d), Choice(topics, d + 1)>>
             connector == Choice(CONNECTORS, d + 2)
         IN  <<Idea(Title(two[1]) \o " " \o connector \o " " \o two[2],
                    "cross-pollination",
                    two[1] \o " + " \o two[2])>>
                 \o CrossPollinationChoices(topics, n - 1, d + 3)

\* Strategy 2 runs only with at least two entries in all_topics
CrossPollinationIdeas(topics, n, d) ==
    IF Len(topics) >= 2 THEN CrossPollination(topics, n, d) ELSE <<>>

\* Strategy 3: one story for each of the projects given (the first three)
RECURSIVE ExperienceBased(_, _)
ExperienceBased(projects, d) ==
    IF projects = <<>> THEN <<>>
    ELSE LET project == Head(projects)
             angle == Choice(STORY_ANGLES, d)
         IN  <<Idea(angle \o " " \o project, "experience-based", project)>>
                 \o ExperienceBased(Tail(projects), d + 1)

\* Variant: the templates of a lightning talk for an unknown format.
FormatTemplatesLightningFallback(p) ==
    DictGet(FORMATS, p.talk_format, FORMATS["lightning"])

\* the templates of the profile's talk format, those of a talk for an
\* unknown format
FormatTemplates(p) == DictGet(FORMATS, p.talk_format, FORMATS["talk"])

\* how many random values one run of strategy 4 reads
FormatReads(p) == IF p.talk_format = "talk" THEN 3 ELSE 2

\* Strategy 4: n runs of a topic in a template of the talk format
RECURSIVE FormatSpecific(_, _, _, _)
FormatSpecific(p, topics, n, d) ==
    IF n = 0 THEN <<>>
    ELSE LET topic == Choice(topics, d)
             template == Choice(FormatTemplates(p), d + 1)
             duration == IF p.talk_format = "talk"
                         THEN Choice(TALK_DURATIONS, d + 2)
                         ELSE OTHER_DURATION
             idea_title == Format(template,
                                  [topic |-> topic,
                                   duration |-> ToString(duration),
                                   artifact |-> topic \o " project"])
         IN  <<Idea(idea_title, "format-specific", topic)>>
                 \o FormatSpecific(p, topics, n - 1, d + FormatReads(p))

\* the hooks of the profile's audience, those of a mixed audience for an
\* unknown tier
Hooks(p) == DictGet(AUDIENCE_HOOKS, p.target_audience, AUDIENCE_HOOKS["mixed"])

\* Strategy 5: n runs of topic: hook
RECURSIVE AudienceTargeted(_, _, _, _)
AudienceTargeted(p, topics, n, d) ==
    IF n = 0 THEN <<>>
    ELSE LET topic == Choice(topics, d)
             hook == Choice(Hooks(p), d + 1)
         IN  <<Idea(Title(topic) \o ": " \o Title(hook), "audience-targeted", topic)>>
                 \o AudienceTargeted(p, topics, n - 1, d + 2)

\* Strategy 6: two titles for each of the topics given (the first three)
RECURSIVE TrackAligned(_, _)
TrackAligned(track, topics) ==
    IF topics = <<>> THEN <<>>
    ELSE LET topic == Head(topics)
         IN  <<Idea(Title(topic) \o " for " \o track, "track-aligned", topic),
               Idea(track \o ": A " \o Title(topic) \o " Perspective",
                    "track-aligned", topic)>>
                 \o TrackAligned(track, Tail(topics))

\* Variant: strategy 6 without the test of the track.
TrackAlignedIdeasUnguarded(p, topics) ==
    TrackAligned(Str(p.conference_track), Prefix(topics, 3))

\* Variant: strategy 6 over every topic.
TrackAlignedIdeasAllTopics(p, topics) ==
    IF Truthy(p.conference_track)
    THEN TrackAligned(Str(p.conference_track), topics)
    ELSE <<>>

\* Strategy 6 runs only with a conference track, over all_topics[:3]
TrackAlignedIdeas(p, topics) ==
    IF Truthy(p.conference_track)
    THEN TrackAligned(Str(p.conference_track), Prefix(topics, 3))
    ELSE <<>>

\* the deduplication loop: an idea is kept unless its lowercased title was
\* seen before
RECURSIVE UniqueFrom(_, _)
UniqueFrom(pool, seen_titles) ==
    IF pool = <<>> THEN <<>>
    ELSE LET idea == Head(pool)
             title_lower == Lower(idea.title)
         IN  IF title_lower \notin seen_titles
             THEN <<idea>> \o UniqueFrom(Tail(pool), seen_titles \cup {title_lower})
             ELSE UniqueFrom(Tail(pool), seen_titles)

\* Variant: titles compared as they are.
RECURSIVE UniqueFromExact(_, _)
UniqueFromExact(pool, seen_titles) ==
    IF pool = <<>> THEN <<>>
    ELSE LET idea == Head(pool)
         IN  IF idea.title \notin seen_titles
             THEN <<idea>> \o UniqueFromExact(Tail(pool), seen_titles \cup {idea.title})
             ELSE UniqueFromExact(Tail(pool), seen_titles)

UniqueIdeasCaseSensitive(pool) == UniqueFromExact(pool, {})

\* Variant: of the ideas with the same lowercased title the last one is kept.
UniqueIdeasLastWins(pool) == Reverse(UniqueFrom(Reverse(pool), {}))

\* Variant: ideas of different types are never duplicates of each other.
RECURSIVE UniqueFromPerType(_, _)
UniqueFromPerType(pool, seen_titles) ==
    IF pool = <<>> THEN <<>>
    ELSE LET idea == Head(pool)
             key == <<Lower(idea.title), idea.type>>
         IN  IF key \notin seen_titles
             THEN <<idea>> \o UniqueFromPerType(Tail(pool), seen_titles \cup {key})
             ELSE UniqueFromPerType(Tail(pool), seen_titles)

UniqueIdeasPerType(pool) == UniqueFromPerType(pool, {})

UniqueIdeas(pool) == UniqueFrom(pool, {})

---------------------------------------------------------------------------
(* The profiles and counts the model calls generate_ideas with.            *)

\* the sample profile of the tests: four topics, two projects, a track
SampleProfile ==
    UserProfile("Test User", <<"Python", "machine learning">>,
                <<"built a chatbot", "deployed ML model">>,
                <<"open source", "AI ethics">>,
                "intermediate", Some("PyCon US"), Some("Data Science & ML"), "talk")

\* nothing entered: the default topics apply
EmptyProfile ==
    UserProfile("User", <<>>, <<>>, <<>>, "mixed", None, None, "talk")

\* two topics, a project and no track
NoTrackProfile ==
    UserProfile("User", <<"Python">>, <<"a project">>, <<"coding">>,
                "mixed", None, None, "talk")

\* one topic only
MinimalProfile ==
    UserProfile("Speaker", <<"coding">>, <<>>, <<>>, "beginners", None, None, "talk")

\* the example scenario: two topics, one project, a custom track
ExampleProfile ==
    UserProfile("Speaker", <<"Python", "Kubernetes">>, <<"migrated to microservices">>,
                <<>>, "advanced", None, Some("Observability"), "talk")

\* the same topic entered as expertise and as interest
RepeatedTopicProfile ==
    UserProfile("Speaker", <<"python">>, <<>>, <<"python">>,
                "mixed", None, None, "lightning")

\* a topic that is also the track, in a workshop
TrackTopicProfile ==
    UserProfile("Speaker", <<"python", "security">>, <<"led a team">>, <<>>,
                "advanced", Some("KubeCon"), Some("Security"), "workshop")

\* an unknown talk format and an unknown audience tier, nothing entered
UnknownKeysProfile ==
    UserProfile("Speaker", <<>>, <<>>, <<>>, "experts", None, None, "keynote")

\* one topic, four projects, a track
ProjectsProfile ==
    UserProfile("Speaker", <<"testing">>,
                <<"built a CLI tool", "led a team", "a project", "wrote a book">>,
                <<>>, "beginners", Some("PyCon US"), Some("Testing & Quality"), "tutorial")

Profiles ==
    {SampleProfile, EmptyProfile, NoTrackProfile, MinimalProfile, ExampleProfile,
     RepeatedTopicProfile, TrackTopicProfile, UnknownKeysProfile, ProjectsProfile}

\* every profile is tried with these counts
SmallCounts == {1, 2, 5}

\* the larger counts of the tests
Scenarios ==
    (Profiles \X SmallCounts)
        \cup {<<SampleProfile, 15>>, <<TrackTopicProfile, 20>>,
              <<MinimalProfile, 11>>}

---------------------------------------------------------------------------
(* generate_ideas, step by step.                                           *)

Init ==
    /\ \E sc \in Scenarios : profile = sc[1] /\ count = sc[2]
    /\ tape \in Tapes
    /\ draws = 0
    /\ pc = "call"
    /\ all_topics = <<>>
    /\ ideas = <<>>
    /\ result = <<>>
    /\ raised = FALSE
    /\ title = ""
    /\ abstract = ""
    /\ AppIdle
    /\ InputIdle
    /\ UiIdle

\* an exception leaves generate_ideas
Raise ==
    /\ raised' = TRUE
    /\ pc' = "raised"
    /\ UNCHANGED <<profile, count, tape, draws, all_topics, ideas, result, title, abstract>>

\* ideas = [], all_topics = ... with the default
Enter ==
    /\ pc = "call"
    /\ all_topics' = AllTopics(profile)
    /\ ideas' = <<>>
    /\ pc' = "strategy1"
    /\ UNCHANGED <<profile, count, tape, draws, result, raised, title, abstract>>
    /\ UNCHANGED <<appVars, inputVars>>
    /\ UNCHANGED uiVars

\* Strategy 1: count // 3 + 1 runs; random.choice raises on an empty list
Strategy1 ==
    /\ pc = "strategy1"
    /\ IF all_topics = <<>>
       THEN Raise
       ELSE LET n == (count \div 3) + 1
            IN  /\ ideas' = ideas \o AngleBased(all_topics, n, draws)
                /\ draws' = draws + 2 * n
                /\ pc' = "strategy2"
                /\ UNCHANGED <<profile, count, tape, all_topics, result, raised,
                               title, abstract>>
    /\ UNCHANGED <<appVars, inputVars>>
    /\ UNCHANGED uiVars

\* Strategy 2: count // 3 + 1 runs, with at least two topics
Strategy2 ==
    /\ pc = "strategy2"
    /\ LET new == CrossPollinationIdeas(all_topics, (count \div 3) + 1, draws)
       IN  /\ ideas' = ideas \o new
           /\ draws' = draws + 3 * Len(new)
    /\ pc' = "strategy3"
    /\ UNCHANGED <<profile, count, tape, all_topics, result, raised, title, abstract>>
    /\ UNCHANGED <<appVars, inputVars>>
    /\ UNCHANGED uiVars

\* Variant: one run for every project.
Strategy3AllProjects ==
    /\ pc = "strategy3"
    /\ LET projects == profile.recent_projects
       IN  /\ ideas' = ideas \o ExperienceBased(projects, draws)
           /\ draws' = draws + Len(projects)
    /\ pc' = "strategy4"
    /\ UNCHANGED <<profile, count, tape, all_topics, result, raised, title, abstract>>
    /\ UNCHANGED <<appVars, inputVars>>
    /\ UNCHANGED uiVars

\* Strategy 3: one run for each of profile.recent_projects[:3]
Strategy3 ==
    /\ pc = "strategy3"
    /\ LET projects == Prefix(profile.recent_projects, 3)
       IN  /\ ideas' = ideas \o ExperienceBased(projects, draws)
           /\ draws' = draws + Len(projects)
    /\ pc' = "strategy4"
    /\ UNCHANGED <<profile, count, tape, all_topics, result, raised, title, abstract>>
    /\ UNCHANGED <<appVars, inputVars>>
    /\ UNCHANGED uiVars

\* Strategy 4: count // 4 + 1 runs
Strategy4 ==
    /\ pc = "strategy4"
    /\ IF all_topics = <<>> \/ FormatTemplates(profile) = <<>>
       THEN Raise
       ELSE LET n == (count \div 4) + 1
            IN  /\ ideas' = ideas \o FormatSpecific(profile, all_topics, n, draws)
                /\ draws' = draws + FormatReads(profile) * n
                /\ pc' = "strategy5"
                /\ UNCHANGED <<profile, count, tape, all_topics, result, raised,
                               title, abstract>>
    /\ UNCHANGED <<appVars, inputVars>>
    /\ UNCHANGED uiVars

\* Strategy 5: count // 4 + 1 runs
Strategy5 ==
    /\ pc = "strategy5"
    /\ IF all_topics = <<>> \/ Hooks(profile) = <<>>
       THEN Raise
       ELSE LET n == (count \div 4) + 1
            IN  /\ ideas' = ideas \o AudienceTargeted(profile, all_topics, n, draws)
                /\ draws' = draws + 2 * n
                /\ pc' = "strategy6"
                /\ UNCHANGED <<profile, count, tape, all_topics, result, raised,
                               title, abstract>>
    /\ UNCHANGED <<appVars, inputVars>>
    /\ UNCHANGED uiVars

\* Strategy 6: only with a conference track, over all_topics[:3]
Strategy6 ==
    /\ pc = "strategy6"
    /\ ideas' = ideas \o TrackAlignedIdeas(profile, all_topics)
    /\ pc' = "shuffle"
    /\ UNCHANGED <<profile, count, tape, draws, all_topics, result, raised,
                   title, abstract>>
    /\ UNCHANGED <<appVars, inputVars>>
    /\ UNCHANGED uiVars

\* random.shuffle(ideas)
Shuffle ==
    /\ pc = "shuffle"
    /\ ideas' \in ShuffleOutcomes(ideas)
    /\ pc' = "dedup"
    /\ UNCHANGED <<profile, count, tape, draws, all_topics, result, raised,
                   title, abstract>>
    /\ UNCHANGED <<appVars, inputVars>>
    /\ UNCHANGED uiVars

\* the deduplication loop and return unique_ideas[:count]
Return ==
    /\ pc = "dedup"
    /\ result' = Prefix(UniqueIdeas(ideas), count)
    /\ pc' = "done"
    /\ UNCHANGED <<profile, count, tape, draws, all_topics, ideas, raised,
                   title, abstract>>
    /\ UNCHANGED <<appVars, inputVars>>
    /\ UNCHANGED uiVars

Next ==
    \/ Enter
    \/ Strategy1
    \/ Strategy2
    \/ Strategy3
    \/ Strategy4
    \/ Strategy5
    \/ Strategy6
    \/ Shuffle
    \/ Return

Spec == Init /\ [][Next]_vars

---------------------------------------------------------------------------
(* generate_abstract                                                       *)

\* Variant: the track and the conference are mentioned whether set or not.
AbstractsUnconditional(t, p) ==
    LET track_mention == " in the " \o Str(p.conference_track) \o " space"
        conf_mention == " at " \o Str(p.conference_name)
    IN  << "In this " \o p.talk_format \o ", we'll explore " \o Lower(t)
               \o track_mention
               \o " and share practical insights from real-world experience.",
           "Join us for an engaging session on " \o Lower(t) \o ". Perfect for "
               \o p.target_audience \o conf_mention \o ".",
           "This " \o p.talk_format \o " covers " \o Lower(t)
               \o ", with actionable takeaways you can apply immediately.",
           "Discover the key concepts behind " \o Lower(t)
               \o " and learn how to apply them in your own projects"
               \o track_mention \o "." >>

\* the four candidate abstracts
Abstracts(t, p) ==
    LET track_mention == IF Truthy(p.conference_track)
                         THEN " in the " \o Str(p.conference_track) \o " space"
                         ELSE ""
        conf_mention == IF Truthy(p.conference_name)
                        THEN " at " \o Str(p.conference_name)
                        ELSE ""
    IN  << "In this " \o p.talk_format \o ", we'll explore " \o Lower(t)
               \o track_mention
               \o " and share practical insights from real-world experience.",
           "Join us for an engaging session on " \o Lower(t) \o ". Perfect for "
               \o p.target_audience \o conf_mention \o ".",
           "This " \o p.talk_format \o " covers " \o Lower(t)
               \o ", with actionable takeaways you can apply immediately.",
           "Discover the key concepts behind " \o Lower(t)
               \o " and learn how to apply them in your own projects"
               \o track_mention \o "." >>

\* the titles generate_abstract is called with
Titles ==
    {"Testing Best Practices", "My Great Talk", "Basic Topic",
     "A Look at None", "Python for Data Science & ML"}

InitAbstract ==
    /\ profile \in Profiles
    /\ title \in Titles
    /\ abstract = ""
    /\ pc = "abstract"
    /\ count = 1
    /\ tape = [i \in 1..TapeLen |-> 0]
    /\ draws = 0
    /\ all_topics = <<>>
    /\ ideas = <<>>
    /\ result = <<>>
    /\ raised = FALSE
    /\ AppIdle
    /\ InputIdle
    /\ UiIdle

\* return random.choice(abstracts)
GenerateAbstract ==
    /\ pc = "abstract"
    /\ \E r \in 1..Len(Abstracts(title, profile)) :
           abstract' = Abstracts(title, profile)[r]
    /\ pc' = "abstract_done"
    /\ UNCHANGED <<profile, count, tape, draws, all_topics, ideas, result, raised,
                   title>>
    /\ UNCHANGED <<appVars, inputVars>>
    /\ UNCHANGED uiVars

NextAbstract == GenerateAbstract

SpecAbstract == InitAbstract /\ [][NextAbstract]_vars

---------------------------------------------------------------------------
(* Properties of generate_ideas.                                           *)

Range(seq) == {seq[i] : i \in DOMAIN seq}

TypesOf(seq) == {seq[i].type : i \in DOMAIN seq}

TitlesOf(seq) == {seq[i].title : i \in DOMAIN seq}

\* the lowercased titles of a list of ideas
LowerTitles(seq) == {Lower(seq[i].title) : i \in DOMAIN seq}

\* what the speaker entered: expertise_areas followed by interests
Entered == profile.expertise_areas \o profile.interests

\* the pool is complete and not yet shuffled
PoolBuilt == pc = "shuffle"

Returned == pc = "done"

\* C1: for every profile and count, and every outcome of the random
\* choices and of the shuffle, generate_ideas returns at most count ideas,
\* no two of them with titles that are equal after lowercasing.
C1_AtMostCountUniqueTitles ==
    Returned =>
        /\ Len(result) <= count
        /\ Cardinality(LowerTitles(result)) = Len(result)

\* A call in which the pool held different titles that are equal after
\* lowercasing, and more unique titles than were asked for.
C1_Witness ==
    /\ Returned
    /\ Len(result) = count
    /\ Cardinality(LowerTitles(ideas)) > count
    /\ Cardinality(LowerTitles(ideas)) < Cardinality(TitlesOf(ideas))

\* C2: generate_ideas never raises and returns at least one idea, exactly
\* one for count = 1, also with nothing entered and with an unknown talk
\* format or audience tier.
C2_NoRaiseAtLeastOne ==
    /\ ~raised
    /\ pc # "raised"
    /\ Returned =>
           /\ Len(result) >= 1
           /\ count = 1 => Len(result) = 1

\* The call with nothing entered, an unknown format and an unknown tier
\* returned its single idea.
C2_Witness ==
    /\ Returned
    /\ profile = UnknownKeysProfile
    /\ count = 1
    /\ Len(result) = 1

\* C3 (as claimed): generate_ideas returns exactly count ideas, for the
\* sample profile (four topics, two projects, a track) with count 5, 10 or
\* 15 and for the profile with nothing entered with count 5.
C3_ExactlyCount ==
    (/\ Returned
     /\ \/ profile = SampleProfile /\ count \in {5, 10, 15}
        \/ profile = EmptyProfile /\ count = 5)
        => Len(result) = count

IsTrackAligned(idea) == idea.type = "track-aligned"

\* C5: with a track set, the track-aligned candidates of the pool before
\* the shuffle are, in this order, for each of the first
\* min(3, |all_topics|) topics in list order, '<Topic title-cased> for
\* <track>' and then '<track>: A <Topic title-cased> Perspective'.
C5_TrackAlignedCandidates ==
    (PoolBuilt /\ Truthy(profile.conference_track)) =>
        LET track == Get(profile.conference_track)
            got == SelectSeq(ideas, IsTrackAligned)
            m == Min(3, Len(all_topics))
        IN  /\ Len(got) = 2 * m
            /\ \A k \in 1..m :
                   /\ got[2 * k - 1].title = Title(all_topics[k]) \o " for " \o track
                   /\ got[2 * k - 1].topic = all_topics[k]
                   /\ got[2 * k].title
                          = track \o ": A " \o Title(all_topics[k]) \o " Perspective"
                   /\ got[2 * k].topic = all_topics[k]

\* A pool built from more than three topics with a track set.
C5_Witness ==
    /\ PoolBuilt
    /\ Truthy(profile.conference_track)
    /\ Len(all_topics) > 3
    /\ Len(SelectSeq(ideas, IsTrackAligned)) = 6

\* C6 (as claimed): with fewer than two distinct entries in all_topics, the
\* returned list holds no cross-pollination idea.
C6_NoCrossBelowTwoDistinct ==
    (Returned /\ Cardinality(Range(all_topics)) < 2) =>
        "cross-pollination" \notin TypesOf(result)

\* C6 (amended): with fewer than two entries in all_topics, neither the
\* pool nor the returned list holds a cross-pollination idea.
C6_NoCrossBelowTwoEntries ==
    /\ (PoolBuilt /\ Len(Entered) = 1) => "cross-pollination" \notin TypesOf(ideas)
    /\ (Returned /\ Len(Entered) = 1) => "cross-pollination" \notin TypesOf(result)
    /\ pc \notin {"call", "strategy1"} => (Len(all_topics) < 2 <=> Len(Entered) = 1)

\* A call with a single topic returned.
C6_Witness ==
    /\ Returned
    /\ Len(all_topics) = 1
    /\ Len(result) = count
    /\ count > 1

AllTypes ==
    {"angle-based", "cross-pollination", "experience-based", "format-specific",
     "audience-targeted", "track-aligned"}

\* C7 (as claimed): with at least two topics, a project and a track, one
\* call with count 20 returns ideas of all six types.
C7_AllSixTypes ==
    (/\ Returned
     /\ count = 20
     /\ Len(Entered) >= 2
     /\ Len(profile.recent_projects) >= 1
     /\ Truthy(profile.conference_track))
        => TypesOf(result) = AllTypes

\* C8: all_topics is expertise_areas followed by interests, or the default
\* topics exactly when those are empty, and the topic of every returned
\* idea that is not experience-based is an entry of all_topics ('t1 + t2'
\* of two entries for a cross-pollination idea).
C8_TopicsFromAllTopics ==
    LET expected == IF Entered = <<>> THEN DEFAULT_TOPICS ELSE Entered
    IN  /\ pc \notin {"call", "raised"} => all_topics = expected
        /\ Returned =>
               \A i \in DOMAIN result :
                   CASE result[i].type = "experience-based" -> TRUE
                     [] result[i].type = "cross-pollination" ->
                          \E t1, t2 \in Range(expected) :
                              result[i].topic = t1 \o " + " \o t2
                     [] OTHER -> result[i].topic \in Range(expected)

\* A returned list, for a speaker who entered topics, with a
\* cross-pollination idea and an idea of a single topic.
C8_Witness ==
    /\ Returned
    /\ Entered # <<>>
    /\ "cross-pollination" \in TypesOf(result)
    /\ "angle-based" \in TypesOf(result)

---------------------------------------------------------------------------
(* Properties of generate_abstract.                                        *)

AbstractReturned == pc = "abstract_done"

\* C9: the abstract contains the lowercased title, and with neither a
\* conference nor a track set it contains neither "at None" nor
\* "in the None".
C9_AbstractTitleNoNone ==
    AbstractReturned =>
        /\ Contains(abstract, Lower(title))
        /\ (profile.conference_name = None /\ profile.conference_track = None) =>
               /\ ~Contains(abstract, "at None")
               /\ ~Contains(abstract, "in the None")

\* An abstract for a title with capitals and a profile without conference
\* and track.
C9_Witness ==
    /\ AbstractReturned
    /\ profile.conference_name = None
    /\ profile.conference_track = None
    /\ title = "A Look at None"
    /\ Contains(abstract, "a look at none")

\* C10 (as claimed): the abstract contains profile.talk_format.
C10_AbstractMentionsFormat ==
    AbstractReturned => Contains(abstract, profile.talk_format)

---------------------------------------------------------------------------
(* generate_key_takeaways (app.py)                                         *)

\* the sample size of generate_key_takeaways
SAMPLE_SIZE == 5

\* the eight base templates, extended by two for beginners and for advanced
TakeawayTemplates(t, audience) ==
    LET topic == Lower(t)
        base == << "Understand the core principles of " \o topic,
                   "Learn practical techniques for implementing " \o topic,
                   "Identify common pitfalls and how to avoid them",
                   "Gain hands-on experience with real-world examples",
                   "Develop a framework for evaluating " \o topic \o " solutions",
                   "Discover best practices used by industry leaders",
                   "Walk away with actionable steps to apply immediately",
                   "Build confidence in working with " \o topic >>
    IN  IF audience = "beginners"
        THEN base \o << "Get a solid foundation in fundamental concepts",
                        "Learn the essential vocabulary and mental models" >>
        ELSE IF audience = "advanced"
        THEN base \o << "Explore edge cases and advanced optimization techniques",
                        "Deep dive into internals and architecture decisions" >>
        ELSE base

\* the values randbelow can return in the k runs of random.sample on n items
RECURSIVE SampleDraws(_, _)
SampleDraws(n, k) ==
    IF k = 0 THEN {<<>>}
    ELSE {<<j>> \o r : j \in 0..(n - 1), r \in SampleDraws(n - 1, k - 1)}

\* Variant: every run picks from the whole population (random.choices).
RECURSIVE ChoicesWith(_, _)
ChoicesWith(pool, js) ==
    IF js = <<>> THEN <<>>
    ELSE <<pool[(Head(js) % Len(pool)) + 1]>> \o ChoicesWith(pool, Tail(js))

\* random.sample on a small population: result[i] = pool[j], then
\* pool[j] = pool[n - i - 1]
RECURSIVE SampleWith(_, _)
SampleWith(pool, js) ==
    IF js = <<>> THEN <<>>
    ELSE LET j == Head(js) + 1
             n == Len(pool)
         IN  <<pool[j]>>
                 \o SampleWith(SubSeq([pool EXCEPT ![j] = pool[n]], 1, n - 1),
                               Tail(js))

\* the titles the detail page functions are called with
DetailTitles == {"Basic Topic", "AI"}

\* the audience tiers of the interface
Audiences == {"beginners", "intermediate", "advanced", "mixed"}

InitTakeaways ==
    /\ title \in DetailTitles
    /\ \E a \in Audiences :
           profile = UserProfile("Speaker", <<"python">>, <<>>, <<>>, a,
                                 None, None, "talk")
    /\ pc = "takeaways"
    /\ count = 1
    /\ tape = [i \in 1..TapeLen |-> 0]
    /\ draws = 0
    /\ all_topics = <<>>
    /\ ideas = <<>>
    /\ result = <<>>
    /\ raised = FALSE
    /\ abstract = ""
    /\ AppIdle
    /\ InputIdle
    /\ UiIdle

\* return random.sample(takeaway_templates, min(5, len(takeaway_templates)))
GenerateKeyTakeaways ==
    /\ pc = "takeaways"
    /\ LET takeaway_templates == TakeawayTemplates(title, profile.target_audience)
           k == Min(SAMPLE_SIZE, Len(takeaway_templates))
       IN  \E js \in SampleDraws(Len(takeaway_templates), k) :
               takeaways' = SampleWith(takeaway_templates, js)
    /\ pc' = "takeaways_done"
    /\ UNCHANGED <<ideaVars, reasons, api_key, chat_log, inputVars>>
    /\ UNCHANGED uiVars

NextTakeaways == GenerateKeyTakeaways

SpecTakeaways == InitTakeaways /\ [][NextTakeaways]_vars

TakeawaysReturned == pc = "takeaways_done"

\* C11: generate_key_takeaways returns exactly five entries, each one of the
\* templates of the audience tier (eight, or ten for beginners and for
\* advanced), and no entry occurs twice.
C11_FiveDistinctTemplates ==
    TakeawaysReturned =>
        LET templates == TakeawayTemplates(title, profile.target_audience)
        IN  /\ Len(templates) =
                   IF profile.target_audience \in {"beginners", "advanced"}
                   THEN 10 ELSE 8
            /\ Len(takeaways) = 5
            /\ Range(takeaways) \subseteq Range(templates)
            /\ Cardinality(Range(takeaways)) = 5

\* A sample for beginners that holds one of the two beginner templates.
C11_Witness ==
    /\ TakeawaysReturned
    /\ profile.target_audience = "beginners"
    /\ "Learn the essential vocabulary and mental models" \in Range(takeaways)
    /\ Len(takeaways) = 5

\* C12: for every audience tier and every sample, at least one returned
\* takeaway contains the lowercased title.
C12_TakeawaysMentionTitle ==
    TakeawaysReturned =>
        \E i \in DOMAIN takeaways : Contains(takeaways[i], Lower(title))

---------------------------------------------------------------------------
(* generate_fit_reasons (app.py)                                           *)

\* the length generate_fit_reasons truncates to
MAX_REASONS == 5

\* the five reasons that do not depend on the conference
GenericReasons(p) ==
    << "Addresses current industry trends and challenges",
       "Provides unique insights from hands-on experience",
       "Suitable for " \o p.target_audience \o " audience with clear learning outcomes",
       "Combines theoretical foundation with practical application",
       "Fills a gap in existing conference content" >>

ConferenceReason(p) ==
    "Aligns with " \o Str(p.conference_name)
        \o "'s focus on practical, actionable content"

TrackReason(p) ==
    "Directly relevant to the " \o Str(p.conference_track) \o " track"

HANDS_ON_REASON == "Hands-on format ensures attendees leave with real skills"

CONCISE_REASON == "Concise format delivers high-impact insights quickly"

\* the closing reason of the talk format, if it has one
FormatReason(p) ==
    IF p.talk_format = "workshop" \/ p.talk_format = "tutorial"
    THEN <<HANDS_ON_REASON>>
    ELSE IF p.talk_format = "lightning"
    THEN <<CONCISE_REASON>>
    ELSE <<>>

\* reasons, before the truncation
AllReasons(p) ==
    (IF Truthy(p.conference_name) THEN <<ConferenceReason(p)>> ELSE <<>>)
        \o (IF Truthy(p.conference_track) THEN <<TrackReason(p)>> ELSE <<>>)
        \o GenericReasons(p)
        \o FormatReason(p)

\* Variant: the generic reasons come first.
FitReasonsGenericFirst(p) ==
    Prefix(GenericReasons(p)
               \o (IF Truthy(p.conference_name) THEN <<ConferenceReason(p)>> ELSE <<>>)
               \o (IF Truthy(p.conference_track) THEN <<TrackReason(p)>> ELSE <<>>)
               \o FormatReason(p),
           MAX_REASONS)

\* Variant: the closing reason is kept and the rest is truncated.
FitReasonsKeepClosing(p) ==
    Prefix(AllReasons(p), MAX_REASONS - Len(FormatReason(p))) \o FormatReason(p)

\* Variant: one more reason is returned.
FitReasonsOneMore(p) == Prefix(AllReasons(p), MAX_REASONS + 1)

\* return reasons[:5]
FitReasons(p) == Prefix(AllReasons(p), MAX_REASONS)

\* the conference names and tracks a profile can hold: unset, empty, set
OptionalNames == {None, Some(""), Some("PyCon US")}

OptionalTracks == {None, Some(""), Some("Security")}

TalkFormats == {"talk", "workshop", "tutorial", "lightning", "poster"}

InitFitReasons ==
    /\ title \in DetailTitles
    /\ \E a \in {"beginners", "mixed"}, cn \in OptionalNames,
          ct \in OptionalTracks, tf \in TalkFormats :
           profile = UserProfile("Speaker", <<"python">>, <<>>, <<>>, a, cn, ct, tf)
    /\ pc = "fit_reasons"
    /\ count = 1
    /\ tape = [i \in 1..TapeLen |-> 0]
    /\ draws = 0
    /\ all_topics = <<>>
    /\ ideas = <<>>
    /\ result = <<>>
    /\ raised = FALSE
    /\ abstract = ""
    /\ AppIdle
    /\ InputIdle
    /\ UiIdle

GenerateFitReasons ==
    /\ pc = "fit_reasons"
    /\ reasons' = FitReasons(profile)
    /\ pc' = "fit_reasons_done"
    /\ UNCHANGED <<ideaVars, takeaways, api_key, chat_log, inputVars>>
    /\ UNCHANGED uiVars

NextFitReasons == GenerateFitReasons

SpecFitReasons == InitFitReasons /\ [][NextFitReasons]_vars

FitReasonsReturned == pc = "fit_reasons_done"

\* how many of the conference reason and the track reason apply
ContextReasons ==
    (IF Truthy(profile.conference_name) THEN 1 ELSE 0)
        + (IF Truthy(profile.conference_track) THEN 1 ELSE 0)

\* C13: with a conference name or a track set, generate_fit_reasons returns
\* exactly five entries: the conference reason first when a name is set, then
\* the track reason when a track is set, then the generic reasons in their
\* fixed order.
C13_FiveInConstructionOrder ==
    (FitReasonsReturned /\ ContextReasons >= 1) =>
        /\ Len(reasons) = 5
        /\ Truthy(profile.conference_name) =>
               reasons[1] = "Aligns with " \o Get(profile.conference_name)
                                \o "'s focus on practical, actionable content"
        /\ Truthy(profile.conference_track) =>
               reasons[ContextReasons] =
                   "Directly relevant to the " \o Get(profile.conference_track)
                       \o " track"
        /\ \A i \in (ContextReasons + 1)..5 :
               reasons[i] = GenericReasons(profile)[i - ContextReasons]

\* A call with a track and no conference name: the track reason leads.
C13_Witness ==
    /\ FitReasonsReturned
    /\ ~Truthy(profile.conference_name)
    /\ Truthy(profile.conference_track)
    /\ Len(reasons) = 5
    /\ reasons[1] = "Directly relevant to the Security track"

\* C14: with both the conference name and the track set, the returned
\* reasons hold neither the hands-on nor the concise closing reason.
C14_ClosingReasonDropped ==
    (/\ FitReasonsReturned
     /\ Truthy(profile.conference_name)
     /\ Truthy(profile.conference_track)) =>
        /\ HANDS_ON_REASON \notin Range(reasons)
        /\ CONCISE_REASON \notin Range(reasons)

\* A workshop at a conference with a track: seven reasons precede the
\* closing reason and five are returned.
C14_Witness ==
    /\ FitReasonsReturned
    /\ Truthy(profile.conference_name)
    /\ Truthy(profile.conference_track)
    /\ profile.talk_format = "workshop"
    /\ Len(AllReasons(profile)) = 8
    /\ Len(reasons) = 5

---------------------------------------------------------------------------
(* chat_with_ai (app.py)                                                   *)

\* How many calls of chat_with_ai a behaviour holds.
MaxCalls == 3

\* sep.join(seq)
RECURSIVE Join(_, _)
Join(sep, seq) ==
    IF seq = <<>> THEN ""
    ELSE IF Len(seq) = 1 THEN seq[1]
    ELSE seq[1] \o sep \o Join(sep, Tail(seq))

\* x or default, for a string x
OrDefault(x, default) == IF x = "" THEN default ELSE x

\* s.startswith(prefix)
StartsWith(s, prefix) ==
    Len(s) >= Len(prefix) /\ SubSeq(s, 1, Len(prefix)) = prefix

\* get_openai_client: a client only for a non-empty key
GetOpenAIClient(key) == IF Truthy(key) THEN key ELSE None

NOT_CONFIGURED == "Please set OPENAI_API_KEY environment variable to use the AI assistant."

ERROR_PREFIX == "Error communicating with AI: "

\* system_prompt
SystemPrompt(idea, p) ==
    "You are a helpful CFP (Call for Papers) writing assistant. \n"
        \o "You're helping a speaker named " \o p.name
        \o " develop their conference talk idea.\n\nTalk Details:\n"
        \o "- Title: " \o idea.title \o "\n"
        \o "- Format: " \o p.talk_format \o "\n"
        \o "- Target Audience: " \o p.target_audience \o "\n"
        \o "- Conference: "
        \o (IF Truthy(p.conference_name) THEN Get(p.conference_name)
            ELSE "Not specified") \o "\n"
        \o "- Track: "
        \o (IF Truthy(p.conference_track) THEN Get(p.conference_track)
            ELSE "Not specified") \o "\n"
        \o "- Speaker's Expertise: "
        \o OrDefault(Join(", ", p.expertise_areas), "Not specified") \o "\n\n"
        \o "Help them refine their abstract, develop talking points, suggest examples, \n"
        \o "and improve their submission. Be encouraging but also provide constructive feedback."

Message(role, content) == [role |-> role, content |-> content]

\* full_messages
FullMessages(messages, idea, p) ==
    <<Message("system", SystemPrompt(idea, p))>> \o messages

\* what the service does with a request: it answers, it answers without
\* choices, or the call raises
ServiceOutcomes ==
    { [kind |-> "ok", content |-> "Lead with the outcome."],
      [kind |-> "no_choices", content |-> ""],
      [kind |-> "raise", content |-> "Connection error."] }

\* the service was not called
NotCalled == [kind |-> "none", content |-> ""]

\* Variant: the call of the service is not inside a try statement.
ChatOutcomeNoHandler(client, outcome) ==
    IF client = None
    THEN [raised |-> FALSE, reply |-> NOT_CONFIGURED]
    ELSE IF outcome.kind = "ok"
    THEN [raised |-> FALSE, reply |-> outcome.content]
    ELSE [raised |-> TRUE, reply |-> ""]

\* what chat_with_ai returns for a client and an outcome of the service
ChatOutcome(client, outcome) ==
    IF client = None
    THEN [raised |-> FALSE, reply |-> NOT_CONFIGURED]
    ELSE IF outcome.kind = "ok"
    THEN [raised |-> FALSE, reply |-> outcome.content]
    ELSE IF outcome.kind = "no_choices"
    THEN [raised |-> FALSE, reply |-> ERROR_PREFIX \o "list index out of range"]
    ELSE [raised |-> FALSE, reply |-> ERROR_PREFIX \o outcome.content]

\* the values of OPENAI_API_KEY: unset, empty, set
ApiKeys == {None, Some(""), Some("sk-test")}

\* the chat histories chat_with_ai is called with
ChatHistories ==
    { <<Message("user", "How can I sharpen the focus?")>>,
      <<Message("user", "Hi"), Message("assistant", NOT_CONFIGURED),
        Message("user", "Hi again")>> }

InitChat ==
    /\ profile \in {SampleProfile, EmptyProfile}
    /\ title = "Basic Topic"
    /\ pc = "chat"
    /\ count = 1
    /\ tape = [i \in 1..TapeLen |-> 0]
    /\ draws = 0
    /\ all_topics = <<>>
    /\ ideas = <<>>
    /\ result = <<>>
    /\ raised = FALSE
    /\ abstract = ""
    /\ takeaways = <<>>
    /\ reasons = <<>>
    /\ api_key \in ApiKeys
    /\ chat_log = <<>>
    /\ InputIdle
    /\ UiIdle

\* the environment variable is set, emptied or removed between two calls
SetApiKey ==
    /\ pc = "chat"
    /\ \E k \in ApiKeys : k # api_key /\ api_key' = k
    /\ UNCHANGED <<ideaVars, pc, takeaways, reasons, chat_log, inputVars>>
    /\ UNCHANGED uiVars

\* one call of chat_with_ai
ChatWithAI ==
    /\ pc = "chat"
    /\ Len(chat_log) < MaxCalls
    /\ \E messages \in ChatHistories :
         LET client == GetOpenAIClient(api_key)
             idea == Idea(title, "angle-based", "python")
         IN  \E outcome \in IF client = None THEN {NotCalled} ELSE ServiceOutcomes :
                 chat_log' = Append(chat_log,
                     [api_key |-> api_key,
                      request |-> IF client = None THEN <<>>
                                  ELSE FullMessages(messages, idea, profile),
                      service |-> outcome.kind,
                      content |-> outcome.content,
                      raised |-> ChatOutcome(client, outcome).raised,
                      reply |-> ChatOutcome(client, outcome).reply])
    /\ UNCHANGED <<ideaVars, pc, takeaways, reasons, api_key, inputVars>>
    /\ UNCHANGED uiVars

NextChat ==
    \/ SetApiKey
    \/ ChatWithAI

SpecChat == InitChat /\ [][NextChat]_vars

\* C15: no call of chat_with_ai raises.  Without a credential the service is
\* not called and the call returns the 'Please set OPENAI_API_KEY' message;
\* when the service call fails it returns a message that starts with 'Error
\* communicating with AI:', which the first message does not; and whatever
\* the earlier calls returned, a call with a credential that the service
\* answers returns the answer.
C15_ChatNeverRaises ==
    \A i \in DOMAIN chat_log :
        LET c == chat_log[i]
        IN  /\ ~c.raised
            /\ ~Truthy(c.api_key) =>
                   /\ c.service = "none"
                   /\ c.reply = "Please set OPENAI_API_KEY environment variable to use the AI assistant."
                   /\ ~StartsWith(c.reply, "Error communicating with AI:")
            /\ (Truthy(c.api_key) /\ c.service \in {"raise", "no_choices"}) =>
                   StartsWith(c.reply, "Error communicating with AI:")
            /\ (Truthy(c.api_key) /\ c.service = "ok") => c.reply = c.content

\* A call without a credential, then a call the service fails, then a call
\* that succeeds.
C15_Witness ==
    /\ Len(chat_log) = 3
    /\ ~Truthy(chat_log[1].api_key)
    /\ chat_log[2].service = "raise"
    /\ chat_log[3].service = "ok"
    /\ chat_log[3].reply = "Lead with the outcome."

---------------------------------------------------------------------------
(* select_conference and collect_user_input (cfp_generator.py)             *)

\* the conference database, in the order of its keys
CONFERENCES ==
    << [name |-> "PyCon US",
        tracks |-> <<"Python Language", "Web Development", "Data Science & ML",
                     "DevOps & Infrastructure", "Testing & Quality",
                     "Community & Education", "Security">>,
        formats |-> <<"talk", "tutorial", "lightning", "poster">>],
       [name |-> "KubeCon",
        tracks |-> <<"Application Development", "CI/CD & GitOps",
                     "Customization & Extensibility", "Observability",
                     "Operations & Performance", "Platform Engineering",
                     "Security & Identity", "Serverless & Edge">>,
        formats |-> <<"talk", "tutorial", "lightning">>],
       [name |-> "AWS re:Invent",
        tracks |-> <<"Architecture", "Compute", "Containers", "Data & Analytics",
                     "Databases", "DevOps", "Machine Learning", "Networking",
                     "Security", "Serverless">>,
        formats |-> <<"talk", "workshop", "chalk talk">>],
       [name |-> "Google Cloud Next",
        tracks |-> <<"AI & Machine Learning", "Application Development",
                     "Data Analytics", "Infrastructure & Operations", "Security",
                     "Collaboration & Productivity">>,
        formats |-> <<"talk", "workshop", "lightning">>],
       [name |-> "Strange Loop",
        tracks |-> <<"Programming Languages", "Distributed Systems", "Databases",
                     "Security", "Developer Experience", "Emerging Technology">>,
        formats |-> <<"talk", "lightning">>],
       [name |-> "DjangoCon",
        tracks |-> <<"Django Internals", "Web Development", "APIs & Services",
                     "Testing & Debugging", "Deployment & DevOps",
                     "Community & Career">>,
        formats |-> <<"talk", "tutorial", "lightning">>],
       [name |-> "ReactConf",
        tracks |-> <<"React Core", "State Management", "Performance", "Testing",
                     "React Native", "Tooling & DX">>,
        formats |-> <<"talk", "lightning">>],
       [name |-> "DockerCon",
        tracks |-> <<"Container Fundamentals", "Docker Compose & Swarm",
                     "CI/CD Pipelines", "Security & Compliance",
                     "Developer Workflows", "Production Best Practices">>,
        formats |-> <<"talk", "workshop", "lightning">>],
       [name |-> "Other / Custom",
        tracks |-> <<>>,
        formats |-> <<"talk", "workshop", "lightning">>] >>

OTHER_CUSTOM == "Other / Custom"

\* conf_list = list(CONFERENCES.keys())
ConfList == [i \in DOMAIN CONFERENCES |-> CONFERENCES[i].name]

\* CONFERENCES[conf_name]
ConfData(cn) == CONFERENCES[CHOOSE i \in DOMAIN CONFERENCES : CONFERENCES[i].name = cn]

\* the characters str.strip removes
Whitespace == {" ", "\t"}

RECURSIVE LStrip(_)
LStrip(s) ==
    IF Len(s) > 0 /\ CharAt(s, 1) \in Whitespace
    THEN LStrip(SubSeq(s, 2, Len(s)))
    ELSE s

RECURSIVE RStrip(_)
RStrip(s) ==
    IF Len(s) > 0 /\ CharAt(s, Len(s)) \in Whitespace
    THEN RStrip(SubSeq(s, 1, Len(s) - 1))
    ELSE s

\* s.strip()
Strip(s) == RStrip(LStrip(s))

\* s.split(","): the pieces between the commas, empty ones included
RECURSIVE SplitFrom(_, _, _)
SplitFrom(s, i, piece) ==
    IF i > Len(s) THEN <<piece>>
    ELSE IF CharAt(s, i) = ","
    THEN <<piece>> \o SplitFrom(s, i + 1, "")
    ELSE SplitFrom(s, i + 1, piece \o CharAt(s, i))

Split(s) == SplitFrom(s, 1, "")

Digits == "0123456789"

IsDigit(c) == \E i \in 1..10 : CharAt(Digits, i) = c

DigitValue(c) == CHOOSE v \in 0..9 : CharAt(Digits, v + 1) = c

\* the digits an int literal may hold: digits, with single underscores
\* between them
ValidDigits(body) ==
    /\ Len(body) > 0
    /\ IsDigit(CharAt(body, 1))
    /\ IsDigit(CharAt(body, Len(body)))
    /\ \A i \in 1..Len(body) : IsDigit(CharAt(body, i)) \/ CharAt(body, i) = "_"
    /\ \A i \in 1..(Len(body) - 1) :
           ~(CharAt(body, i) = "_" /\ CharAt(body, i + 1) = "_")

RECURSIVE DigitsValue(_, _, _)
DigitsValue(body, i, acc) ==
    IF i > Len(body) THEN acc
    ELSE IF CharAt(body, i) = "_" THEN DigitsValue(body, i + 1, acc)
    ELSE DigitsValue(body, i + 1, 10 * acc + DigitValue(CharAt(body, i)))

\* int(s): the set holding the value, or the empty set for a ValueError
ParseInt(s) ==
    LET t == Strip(s)
        signed == Len(t) > 0 /\ CharAt(t, 1) \in {"-", "+"}
        body == IF signed THEN SubSeq(t, 2, Len(t)) ELSE t
    IN  IF ~ValidDigits(body) THEN {}
        ELSE IF signed /\ CharAt(t, 1) = "-"
        THEN {0 - DigitsValue(body, 1, 0)}
        ELSE {DigitsValue(body, 1, 0)}

\* seq[idx] for a zero-based index that may be negative: the set holding the
\* element, or the empty set for an IndexError
PyIndex(seq, idx) ==
    IF 0 <= idx /\ idx < Len(seq) THEN {seq[idx + 1]}
    ELSE IF idx < 0 /\ 0 - idx <= Len(seq) THEN {seq[Len(seq) + idx + 1]}
    ELSE {}

\* int(choice) - 1 if choice else default_idx, then seq[idx]: the set holding
\* the element, or the empty set when ValueError or IndexError is raised
PickByNumber(seq, choice, default_idx) ==
    LET n == IF choice # "" THEN ParseInt(choice) ELSE {default_idx + 1}
    IN  IF n = {} THEN {}
        ELSE PyIndex(seq, (CHOOSE v \in n : TRUE) - 1)

\* the conference chosen by a line of input
ConferenceOf(line) ==
    LET choice == Strip(line)
        picked == PickByNumber(ConfList, choice, Len(ConfList) - 1)
    IN  IF picked = {} THEN OTHER_CUSTOM ELSE Get(picked)

\* the track chosen by a line of input, for a conference with tracks
TrackOf(tracks, line) ==
    LET track_choice == Strip(line)
        n == ParseInt(track_choice)
    IN  IF n = {} THEN None
        ELSE LET track_idx == (CHOOSE v \in n : TRUE) - 1
             IN  IF 0 <= track_idx /\ track_idx < Len(tracks)
                 THEN Some(tracks[track_idx + 1])
                 ELSE None

\* the custom theme entered for a conference without tracks
ThemeOf(line) ==
    LET custom_track == Strip(line)
    IN  IF custom_track # "" THEN Some(custom_track) ELSE None

\* the format chosen by a line of input
FormatOf(formats, line) ==
    LET fmt_choice == Strip(line)
        picked == PickByNumber(formats, fmt_choice, 0)
    IN  IF picked = {} THEN formats[1] ELSE Get(picked)

\* Variant: the conference name is returned as selected.
ReturnedConferenceAsSelected(cn) == Some(cn)

\* conf_name if conf_name != "Other / Custom" else None
ReturnedConference(cn) == IF cn # OTHER_CUSTOM THEN Some(cn) ELSE None

\* Variant: the empty pieces are kept.
ParseListKeepEmpty(line) ==
    LET pieces == Split(Strip(line))
    IN  [i \in DOMAIN pieces |-> Strip(pieces[i])]

\* [e.strip() for e in line.strip().split(",") if e.strip()]
ParseList(line) ==
    LET pieces == Split(Strip(line))
        stripped == [i \in DOMAIN pieces |-> Strip(pieces[i])]
    IN  SelectSeq(stripped, LAMBDA e : e # "")

\* audience_map
AUDIENCE_MAP ==
    [k \in {"1", "2", "3", "4"} |->
        IF k = "1" THEN "beginners"
        ELSE IF k = "2" THEN "intermediate"
        ELSE IF k = "3" THEN "advanced"
        ELSE "mixed"]

\* audience_map.get(input.strip() or "4", "mixed")
AudienceOf(line) ==
    DictGet(AUDIENCE_MAP, OrDefault(Strip(line), "4"), "mixed")

\* the lines the speaker may type at each prompt
NameInputs == {"", "  ", " Jane Doe "}

ConferenceInputs == {"", "1", " 3 ", "9", "10", "0", "-1", "invalid", "-10"}

TrackInputs == {"", "2", "8", "0", "-1"}

ThemeInputs == {"", " custom theme ", "  "}

FormatInputs == {"", "2", "0", "-1", "5", "invalid"}

ListInputs ==
    {"", "  Python  ,  Django  ,  REST APIs  ", "Python,,AWS, ,serverless,", " , "}

ProjectInputs == {"  built app  ", ","}

InterestInputs == {"", "cloud architecture, open source"}

AudienceInputs == {"", "1", " 3 ", "99"}

\* no profile was returned yet
NoProfile == UserProfile("", <<>>, <<>>, <<>>, "", None, None, "")

InitInput ==
    /\ pc = "name"
    /\ profile = NoProfile
    /\ count = 1
    /\ tape = [i \in 1..TapeLen |-> 0]
    /\ draws = 0
    /\ all_topics = <<>>
    /\ ideas = <<>>
    /\ result = <<>>
    /\ raised = FALSE
    /\ title = ""
    /\ abstract = ""
    /\ AppIdle
    /\ InputIdle
    /\ UiIdle

\* name = input("Your name: ").strip() or "Speaker"
ReadName ==
    /\ pc = "name"
    /\ \E line \in NameInputs :
           /\ inputs' = Append(inputs, line)
           /\ speaker' = OrDefault(Strip(line), "Speaker")
    /\ pc' = "conference"
    /\ UNCHANGED <<ideaVars, appVars, conf_name, sel_track, sel_format>>
    /\ UNCHANGED uiVars

\* select_conference: the conference prompt
ChooseConference ==
    /\ pc = "conference"
    /\ \E line \in ConferenceInputs :
           /\ inputs' = Append(inputs, line)
           /\ conf_name' = ConferenceOf(line)
           /\ pc' = IF ConfData(ConferenceOf(line)).tracks # <<>>
                    THEN "track" ELSE "theme"
    /\ sel_track' = None
    /\ UNCHANGED <<ideaVars, appVars, speaker, sel_format>>
    /\ UNCHANGED uiVars

\* select_conference: the track prompt of a conference with tracks
ChooseTrack ==
    /\ pc = "track"
    /\ \E line \in TrackInputs :
           /\ inputs' = Append(inputs, line)
           /\ sel_track' = TrackOf(ConfData(conf_name).tracks, line)
    /\ pc' = "format"
    /\ UNCHANGED <<ideaVars, appVars, speaker, conf_name, sel_format>>
    /\ UNCHANGED uiVars

\* select_conference: the theme prompt of a conference without tracks
EnterTheme ==
    /\ pc = "theme"
    /\ \E line \in ThemeInputs :
           /\ inputs' = Append(inputs, line)
           /\ sel_track' = ThemeOf(line)
    /\ pc' = "format"
    /\ UNCHANGED <<ideaVars, appVars, speaker, conf_name, sel_format>>
    /\ UNCHANGED uiVars

\* select_conference: the format prompt; the function returns
ChooseFormat ==
    /\ pc = "format"
    /\ \E line \in FormatInputs :
           /\ inputs' = Append(inputs, line)
           /\ sel_format' = FormatOf(ConfData(conf_name).formats, line)
    /\ pc' = "selected"
    /\ UNCHANGED <<ideaVars, appVars, speaker, conf_name, sel_track>>
    /\ UNCHANGED uiVars

\* collect_user_input after select_conference: the three lists, the audience
\* and the UserProfile it returns
ReadProfile ==
    /\ pc = "selected"
    /\ \E expertise_input \in ListInputs, projects_input \in ProjectInputs,
          interests_input \in InterestInputs, audience_choice \in AudienceInputs :
           /\ inputs' = inputs \o <<expertise_input, projects_input,
                                    interests_input, audience_choice>>
           /\ profile' = UserProfile(speaker,
                                     ParseList(expertise_input),
                                     ParseList(projects_input),
                                     ParseList(interests_input),
                                     AudienceOf(audience_choice),
                                     ReturnedConference(conf_name),
                                     sel_track,
                                     sel_format)
    /\ pc' = "collected"
    /\ UNCHANGED <<count, tape, draws, all_topics, ideas, result, raised, title,
                   abstract, appVars, speaker, conf_name, sel_track, sel_format>>
    /\ UNCHANGED uiVars

NextInput ==
    \/ ReadName
    \/ ChooseConference
    \/ ChooseTrack
    \/ EnterTheme
    \/ ChooseFormat
    \/ ReadProfile

SpecInput == InitInput /\ [][NextInput]_vars

\* select_conference has returned (conference, track, format)
Selected == pc \in {"selected", "collected"}

\* the conference returned by select_conference
SelectedConference == ReturnedConference(conf_name)

\* the lines typed at the conference prompt and at the format prompt
ConferenceLine == inputs[2]

FormatLine == inputs[4]

\* the catalog entries with a given name
Catalog(cn) == {c \in Range(CONFERENCES) : c.name = cn}

\* the line holds no integer between 1 and n
NotANumberIn(line, n) ==
    \A v \in ParseInt(line) : v < 1 \/ v > n

\* C16: the triple returned by select_conference is legal for the catalog
\* entry it selected: the format is one of the entry's formats, the track of
\* an entry with tracks is None or one of its tracks, and the conference is
\* None exactly when the entry is 'Other / Custom'; the profile returned by
\* collect_user_input holds that triple.
C16_LegalSelection ==
    Selected =>
        /\ \E c \in Catalog(conf_name) :
               /\ sel_format \in Range(c.formats)
               /\ c.tracks # <<>> =>
                      \/ sel_track = None
                      \/ \E t \in Range(c.tracks) : sel_track = Some(t)
        /\ SelectedConference = None <=> conf_name = "Other / Custom"
        /\ SelectedConference # None => SelectedConference = Some(conf_name)
        /\ pc = "collected" =>
               /\ profile.conference_name = SelectedConference
               /\ profile.conference_track = sel_track
               /\ profile.talk_format = sel_format

\* A selection by numbers: AWS re:Invent, its second track, its second format.
C16_Witness ==
    /\ pc = "selected"
    /\ inputs = <<" Jane Doe ", " 3 ", "2", "2">>
    /\ SelectedConference = Some("AWS re:Invent")
    /\ sel_track = Some("Compute")
    /\ sel_format = "workshop"

\* C17: a conference line that holds no integer between 1 and the number of
\* conferences selects 'Other / Custom', and a format line that holds no
\* integer between 1 and the number of formats selects the first format;
\* 0 and negative numbers included.
C17_InvalidFallsBack ==
    Selected =>
        /\ NotANumberIn(ConferenceLine, Len(CONFERENCES)) =>
               SelectedConference = None
        /\ NotANumberIn(FormatLine, Len(ConfData(conf_name).formats)) =>
               sel_format = ConfData(conf_name).formats[1]

\* s without its whitespace and its commas
RECURSIVE Squash(_)
Squash(s) ==
    IF s = "" THEN ""
    ELSE IF CharAt(s, 1) \in Whitespace \cup {","}
    THEN Squash(SubSeq(s, 2, Len(s)))
    ELSE CharAt(s, 1) \o Squash(SubSeq(s, 2, Len(s)))

\* the entries are non-empty and trimmed, hold no comma, and are the text of
\* the line in its order
WellFormedList(list, line) ==
    /\ \A i \in DOMAIN list :
           /\ list[i] # ""
           /\ CharAt(list[i], 1) \notin Whitespace
           /\ CharAt(list[i], Len(list[i])) \notin Whitespace
           /\ ~Contains(list[i], ",")
    /\ Squash(Join("", list)) = Squash(line)

\* C18: in the profile returned by collect_user_input every entry of the
\* three lists is a non-empty trimmed string, in input order; the audience
\* is one of the four tiers, 'mixed' for every choice other than 1, 2 and 3;
\* and the name is 'Speaker' when the entered name is empty.
C18_WellFormedProfile ==
    pc = "collected" =>
        /\ WellFormedList(profile.expertise_areas, inputs[5])
        /\ WellFormedList(profile.recent_projects, inputs[6])
        /\ WellFormedList(profile.interests, inputs[7])
        /\ profile.target_audience \in {"beginners", "intermediate", "advanced", "mixed"}
        /\ Strip(inputs[8]) \notin {"1", "2", "3"} => profile.target_audience = "mixed"
        /\ Strip(inputs[8]) = "1" => profile.target_audience = "beginners"
        /\ Strip(inputs[8]) = "3" => profile.target_audience = "advanced"
        /\ inputs[1] = "" => profile.name = "Speaker"
        /\ profile.name # ""

\* A profile from lines with empty pieces, an invalid audience and no name.
C18_Witness ==
    /\ pc = "collected"
    /\ inputs[1] = ""
    /\ inputs[5] = "Python,,AWS, ,serverless,"
    /\ inputs[8] = "99"
    /\ profile.name = "Speaker"
    /\ profile.expertise_areas = <<"Python", "AWS", "serverless">>
    /\ profile.recent_projects = <<>>
    /\ profile.target_audience = "mixed"

---------------------------------------------------------------------------
(* The deduplication of generate_ideas.                                    *)

\* the lowercased titles of a list of ideas, in its order
RECURSIVE LowerTitleSeq(_)
LowerTitleSeq(seq) ==
    IF seq = <<>> THEN <<>>
    ELSE <<Lower(Head(seq).title)>> \o LowerTitleSeq(Tail(seq))

\* the positions of a list of titles that no earlier position equals
FirstOccurrences(titles) ==
    {i \in DOMAIN titles : \A j \in 1..(i - 1) : titles[j] # titles[i]}

\* the k-th smallest member of a set of positions
NthOf(positions, k) ==
    CHOOSE i \in positions : Cardinality({j \in positions : j <= i}) = k

\* C19: the returned list is the first count ideas of the shuffled pool that
\* no earlier idea of the pool equals in lowercased title, in shuffle order,
\* whatever the types of the ideas.
C19_FirstOccurrenceWins ==
    Returned =>
        LET kept == FirstOccurrences(LowerTitleSeq(ideas))
        IN  /\ Len(result) = Min(count, Cardinality(kept))
            /\ \A k \in DOMAIN result : result[k] = ideas[NthOf(kept, k)]

\* A cross-pollination idea and a track-aligned idea with the same lowercased
\* title: the earlier one in shuffle order is returned, the later one is not.
C19_Witness ==
    /\ Returned
    /\ \E i, j \in DOMAIN ideas :
           /\ i < j
           /\ {ideas[i].type, ideas[j].type} = {"cross-pollination", "track-aligned"}
           /\ ideas[i].title # ideas[j].title
           /\ Lower(ideas[i].title) = Lower(ideas[j].title)
           /\ ideas[i] \in Range(result)
           /\ ideas[j] \notin Range(result)

---------------------------------------------------------------------------
(* The strategies of generate_ideas.                                       *)

\* how many ideas of a list have a type
CountOfType(seq, type) == Cardinality({i \in DOMAIN seq : seq[i].type = type})

\* the ideas of a list that have a type, in its order
OfType(seq, type) == SelectSeq(seq, LAMBDA idea : idea.type = type)

\* C21: before the shuffle the pool holds count \div 3 + 1 angle-based
\* candidates, as many cross-pollination candidates with two topics or more
\* and none otherwise, one experience-based candidate for each of the first
\* three projects, count \div 4 + 1 format-specific and as many
\* audience-targeted candidates, and two track-aligned candidates for each of
\* the first three topics with a track and none otherwise; and so at least
\* count candidates for a count from 1 to 20.
C21_PoolCounts ==
    PoolBuilt =>
        /\ CountOfType(ideas, "angle-based") = (count \div 3) + 1
        /\ CountOfType(ideas, "cross-pollination") =
               IF Len(all_topics) >= 2 THEN (count \div 3) + 1 ELSE 0
        /\ CountOfType(ideas, "experience-based") =
               Min(3, Len(profile.recent_projects))
        /\ CountOfType(ideas, "format-specific") = (count \div 4) + 1
        /\ CountOfType(ideas, "audience-targeted") = (count \div 4) + 1
        /\ CountOfType(ideas, "track-aligned") =
               IF Truthy(profile.conference_track)
               THEN 2 * Min(3, Len(all_topics)) ELSE 0
        /\ (1 <= count /\ count <= 20) => Len(ideas) >= count

\* the four lead-in phrases followed by a project
StoryTitles(project) ==
    {lead \o " " \o project :
        lead \in {"How we", "Why we", "What we learned when we",
                  "The story of how we"}}

\* C22: the pool holds one experience-based candidate for each of the first
\* three projects, in their order, titled by a lead-in phrase, a space and
\* the project; the returned experience-based ideas are among them, at most
\* three, and none without projects.
C22_ExperienceBased ==
    /\ PoolBuilt =>
           LET stories == OfType(ideas, "experience-based")
           IN  /\ Len(stories) = Min(3, Len(profile.recent_projects))
               /\ \A k \in DOMAIN stories :
                      /\ stories[k].topic = profile.recent_projects[k]
                      /\ stories[k].title \in StoryTitles(profile.recent_projects[k])
    /\ Returned =>
           LET stories == OfType(result, "experience-based")
           IN  /\ Len(stories) <= 3
               /\ profile.recent_projects = <<>> => stories = <<>>
               /\ \A k \in DOMAIN stories :
                      /\ \E j \in 1..Min(3, Len(profile.recent_projects)) :
                             stories[k].topic = profile.recent_projects[j]
                      /\ stories[k].title \in StoryTitles(stories[k].topic)

\* A call with four projects that returned an experience-based idea.
C22_Witness ==
    /\ Returned
    /\ Len(profile.recent_projects) = 4
    /\ CountOfType(result, "experience-based") >= 1
    /\ \A k \in DOMAIN result : result[k].topic # profile.recent_projects[4]

\* C23: the topic of every cross-pollination candidate joins two topics that
\* differ as strings.
C23_SampledTopicsDiffer ==
    \A k \in DOMAIN ideas :
        ideas[k].type = "cross-pollination" =>
            \E i, j \in DOMAIN all_topics :
                /\ all_topics[i] # all_topics[j]
                /\ ideas[k].topic = all_topics[i] \o " + " \o all_topics[j]

\* the titles strategy 4 can build from a list of templates and durations
FormatTitles(templates, durations) ==
    {Format(templates[t], [topic |-> topic,
                           duration |-> ToString(minutes),
                           artifact |-> topic \o " project"]) :
        t \in DOMAIN templates, topic \in Range(all_topics), minutes \in durations}

\* C24: every format-specific candidate is a template of the profile's talk
\* format, or of a talk when the format has no templates, filled with a topic
\* and with 30 or 45 minutes exactly for the format 'talk' and with 90
\* minutes otherwise.
C24_FormatTemplatesAndDuration ==
    PoolBuilt =>
        LET templates == IF profile.talk_format \in DOMAIN FORMATS
                         THEN FORMATS[profile.talk_format]
                         ELSE FORMATS["talk"]
            durations == IF profile.talk_format = "talk" THEN {30, 45} ELSE {90}
        IN  \A k \in DOMAIN ideas :
                ideas[k].type = "format-specific" =>
                    /\ ideas[k].title \in FormatTitles(templates, durations)
                    /\ profile.talk_format \notin DOMAIN FORMATS =>
                           /\ ~Contains(ideas[k].title, "30")
                           /\ ~Contains(ideas[k].title, "45")

\* A call with the format 'keynote': a talk template that shows 90 minutes.
C24_Witness ==
    /\ PoolBuilt
    /\ profile.talk_format = "keynote"
    /\ \E k \in DOMAIN ideas :
           /\ ideas[k].type = "format-specific"
           /\ ideas[k].title = "A 90-minute exploration of technology"

\* C25: for every profile the returned reasons hold no closing reason of the
\* talk format; without a conference and a track they are the five generic
\* reasons.
C25_ClosingReasonNeverReturned ==
    FitReasonsReturned =>
        /\ \A i \in DOMAIN reasons :
               reasons[i] \notin {"Hands-on format ensures attendees leave with real skills",
                                  "Concise format delivers high-impact insights quickly"}
        /\ ContextReasons = 0 => reasons = GenericReasons(profile)

\* A lightning talk without a conference and a track: the closing reason is
\* the sixth reason.
C25_Witness ==
    /\ FitReasonsReturned
    /\ ContextReasons = 0
    /\ profile.talk_format = "lightning"
    /\ Len(AllReasons(profile)) = 6
    /\ Len(reasons) = 5

---------------------------------------------------------------------------
(* The Streamlit application (app.py): st.session_state and the two pages. *)
(* An action is one script run with one widget pressed, followed by the    *)
(* run that st.rerun() starts.  The text area of the abstract returns the  *)
(* cached abstract (no manual edit).                                       *)

\* How many button presses and chat inputs a session holds.
MaxSteps == 5

\* How many messages a chat transcript holds.
MaxChat == 3

\* key in st.session_state
Has(s, key) == key \in DOMAIN s

\* st.session_state[key] = value
Put(s, key, value) == [k \in DOMAIN s \cup {key} |-> IF k = key THEN value ELSE s[k]]

\* del st.session_state[key]
Del(s, key) == [k \in DOMAIN s \ {key} |-> s[k]]

\* f"abstract_{selected_index}", f"takeaways_{selected_index}", f"fit_{selected_index}"
CacheKey(prefix, i) == prefix \o "_" \o ToString(i)

\* the candidates of generate_ideas before the shuffle, the strategies
\* reading the random source from its d-th value
Pool(p, n, d) ==
    LET topics == AllTopics(p)
        s1 == AngleBased(topics, (n \div 3) + 1, d)
        d1 == d + 2 * Len(s1)
        s2 == CrossPollinationIdeas(topics, (n \div 3) + 1, d1)
        d2 == d1 + 3 * Len(s2)
        s3 == ExperienceBased(Prefix(p.recent_projects, 3), d2)
        d3 == d2 + Len(s3)
        s4 == FormatSpecific(p, topics, (n \div 4) + 1, d3)
        d4 == d3 + FormatReads(p) * Len(s4)
        s5 == AudienceTargeted(p, topics, (n \div 4) + 1, d4)
        s6 == TrackAlignedIdeas(p, topics)
    IN  s1 \o s2 \o s3 \o s4 \o s5 \o s6

\* how many values of the random source the strategies read
PoolReads(p, n) ==
    LET topics == AllTopics(p)
    IN  2 * ((n \div 3) + 1)
            + (IF Len(topics) >= 2 THEN 3 * ((n \div 3) + 1) ELSE 0)
            + Min(3, Len(p.recent_projects))
            + (FormatReads(p) + 2) * ((n \div 4) + 1)

\* The outcomes of random.shuffle(s) the sessions follow: s cut in the
\* middle, and s reversed.
AppShuffleOutcomes(s) == {Rotate(s, Len(s) \div 2), Reverse(s)}

\* what generate_ideas(profile, count) can return: the pool shuffled,
\* deduplicated and cut to count
GenerateIdeas(p, n, d) ==
    {Prefix(UniqueIdeas(shuffled), n) : shuffled \in AppShuffleOutcomes(Pool(p, n, d))}

\* the values randbelow returns in the k runs of random.sample on n items,
\* from the d-th value of the random source
RECURSIVE TapeDraws(_, _, _)
TapeDraws(n, k, d) ==
    IF k = 0 THEN <<>>
    ELSE <<Randbelow(n, d)>> \o TapeDraws(n - 1, k - 1, d + 1)

\* generate_key_takeaways(title, profile), from the d-th value
KeyTakeaways(t, p, d) ==
    LET takeaway_templates == TakeawayTemplates(t, p.target_audience)
        k == Min(SAMPLE_SIZE, Len(takeaway_templates))
    IN  SampleWith(takeaway_templates, TapeDraws(Len(takeaway_templates), k, d))

\* [x.strip() for x in text.split(",") if x.strip()]
StrippedItems(text) ==
    LET pieces == Split(text)
    IN  SelectSeq(pieces, LAMBDA piece : Strip(piece) # "")

\* the same list with every item stripped
AppParseList(text) ==
    LET kept == StrippedItems(text)
    IN  IF kept = <<>> THEN <<>> ELSE [i \in 1..Len(kept) |-> Strip(kept[i])]

\* the widgets of the sidebar: the conference, the position chosen in the
\* track options ("No specific track" first), the theme typed for a
\* conference without tracks, the position of the format, the texts, the
\* audience and the slider
Form(conference, track_choice, custom_track, format_choice, speaker_name, expertise, projects, interests, target_audience, idea_count) ==
    [conference |-> conference, track_choice |-> track_choice,
     custom_track |-> custom_track, format_choice |-> format_choice,
     name |-> speaker_name, expertise |-> expertise, projects |-> projects,
     interests |-> interests, target_audience |-> target_audience,
     idea_count |-> idea_count]

\* the forms the sessions of the model submit: nothing entered (the
\* interests hold only separators), one interest with a track for one
\* idea, and two topics with a project for two ideas
AppForms ==
    { Form("Other / Custom", 1, "", 1, "Speaker", "", "", " , ", "mixed", 2),
      Form("PyCon US", 8, "", 3, "Ada", "", "", "go", "beginners", 1),
      Form("Other / Custom", 1, "", 1, "Speaker", "python, go", "built a CLI tool",
           "", "mixed", 2) }

\* track: the selection unless it is "No specific track", or the theme typed
FormTrack(f) ==
    LET conf_data == ConfData(f.conference)
    IN  IF conf_data.tracks # <<>>
        THEN LET track_options == <<"No specific track">> \o conf_data.tracks
                 track_selection == track_options[f.track_choice]
             IN  IF track_selection # "No specific track"
                 THEN Some(track_selection) ELSE None
        ELSE IF f.custom_track # "" THEN Some(f.custom_track) ELSE None

\* the profile built from the widgets
FormProfile(f) ==
    UserProfile(f.name, AppParseList(f.expertise), AppParseList(f.projects),
                AppParseList(f.interests), f.target_audience,
                IF f.conference # OTHER_CUSTOM THEN Some(f.conference) ELSE None,
                FormTrack(f),
                ConfData(f.conference).formats[f.format_choice])

\* Variant: the ideas are generated whatever was entered.
HasTopicsAlways(expertise_areas, interest_list) == TRUE

\* the negation of "not expertise_areas and not interest_list"
HasTopics(expertise_areas, interest_list) ==
    expertise_areas # <<>> \/ interest_list # <<>>

\* main: the detail page is shown
OnDetailPage(s) == Has(s, "selected_idea_index") /\ Has(s, "ideas")

\* render_detail_page can read profile and ideas[selected_index]
Readable(s) ==
    /\ Has(s, "profile")
    /\ s["selected_idea_index"] \in 0..(Len(s["ideas"]) - 1)

\* selected_idea = ideas[selected_index]
SelectedIdea(s) == s["ideas"][s["selected_idea_index"] + 1]

\* one run of render_detail_page without a widget pressed: chat_messages
\* and the three cached texts are created when missing
RenderDetail(s, d) ==
    LET i == s["selected_idea_index"]
        t == SelectedIdea(s).title
        p == s["profile"]
        s0 == IF Has(s, "chat_messages") THEN s ELSE Put(s, "chat_messages", <<>>)
        ka == CacheKey("abstract", i)
        s1 == IF Has(s0, ka) THEN s0 ELSE Put(s0, ka, Choice(Abstracts(t, p), d))
        d1 == IF Has(s0, ka) THEN d ELSE d + 1
        kt == CacheKey("takeaways", i)
        s2 == IF Has(s1, kt) THEN s1 ELSE Put(s1, kt, KeyTakeaways(t, p, d1))
        d2 == IF Has(s1, kt) THEN d1 ELSE d1 + SAMPLE_SIZE
        kf == CacheKey("fit", i)
        s3 == IF Has(s2, kf) THEN s2 ELSE Put(s2, kf, FitReasons(p))
    IN  [s |-> s3, d |-> d2 % TapeLen]

\* the script run st.rerun() starts: the detail page when an idea is
\* selected, the generator page (which changes nothing) otherwise
Rerun(s, d) ==
    IF OnDetailPage(s) /\ Readable(s) THEN RenderDetail(s, d)
    ELSE [s |-> s, d |-> d % TapeLen]

\* what the run shows besides the page: an exception when the detail page
\* cannot read its idea
RerunNotice(s) == IF OnDetailPage(s) /\ ~Readable(s) THEN "exception" ELSE "none"

\* Variant: the position on the page, counted from one, is stored.
SelectIdeaOneBased(s, i) ==
    Put(Put(s, "selected_idea_index", i + 1), "chat_messages", <<>>)

\* Variant: the chat transcript is kept.
SelectIdeaKeepChat(s, i) == Put(s, "selected_idea_index", i)

\* selected_idea_index = i and chat_messages = [] (Expand and the sidebar)
SelectIdea(s, i) ==
    Put(Put(s, "selected_idea_index", i), "chat_messages", <<>>)

\* the random sources of the sessions: the values in turn, from 0 and from 1
AppTapes == {[i \in 1..TapeLen |-> (c + i) % RandBound] : c \in {0, 1}}

\* what the user types into the chat input
ChatPrompts == {"How can I sharpen the focus?"}

\* the prompts of the four quick buttons
QuickPrompts(s) ==
    LET t == SelectedIdea(s).title
        ka == CacheKey("abstract", s["selected_idea_index"])
    IN  << "Please help me improve this abstract for my talk '" \o t \o "': "
               \o (IF Has(s, ka) THEN s[ka] ELSE ""),
           "What are some good real-world examples or case studies I could include in my talk about '"
               \o t \o "'?",
           "How can I make my talk '" \o t
               \o "' more focused and impactful? What should I cut or emphasize?",
           "What questions might the audience ask after my talk on '" \o t
               \o "'? How should I prepare to answer them?" >>

\* how many messages a selection removes
ChatLength(s) == IF Has(s, "chat_messages") THEN Len(s["chat_messages"]) ELSE 0

InitApp ==
    /\ pc = "app"
    /\ tape \in AppTapes
    /\ draws = 0
    /\ api_key \in {None, Some("sk-test")}
    /\ profile = EmptyProfile
    /\ count = 1
    /\ all_topics = <<>>
    /\ ideas = <<>>
    /\ result = <<>>
    /\ raised = FALSE
    /\ title = ""
    /\ abstract = ""
    /\ takeaways = <<>>
    /\ reasons = <<>>
    /\ chat_log = <<>>
    /\ InputIdle
    /\ UiIdle

\* what no action of the application changes
AppFrame ==
    UNCHANGED <<profile, count, tape, pc, all_topics, ideas, result, raised, title,
                abstract, takeaways, reasons, api_key, chat_log, inputVars>>

\* the user acts on the page shown
CanAct == pc = "app" /\ steps < MaxSteps /\ notice # "exception"

\* "Generate Ideas" on the generator page
Generate ==
    /\ CanAct
    /\ ~OnDetailPage(session_state)
    /\ \E f \in AppForms :
         LET p == FormProfile(f)
         IN  IF ~HasTopics(p.expertise_areas, p.interests)
             THEN /\ notice' = "warning"
                  /\ UNCHANGED <<session_state, draws>>
             ELSE \E new_ideas \in GenerateIdeas(p, f.idea_count, draws) :
                    LET stored == Put(Put(session_state, "ideas", new_ideas),
                                      "profile", p)
                        run == Rerun(stored, draws + PoolReads(p, f.idea_count))
                    IN  /\ session_state' = run.s
                        /\ draws' = run.d
                        /\ notice' = RerunNotice(stored)
    /\ steps' = steps + 1
    /\ UNCHANGED <<since_select, discarded>>
    /\ AppFrame

\* "Expand" next to the i-th idea of the generator page
Expand ==
    /\ CanAct
    /\ ~OnDetailPage(session_state)
    /\ Has(session_state, "ideas") /\ Has(session_state, "profile")
    /\ \E i \in 0..(Len(session_state["ideas"]) - 1) :
         LET selected == SelectIdea(session_state, i)
             run == Rerun(selected, draws)
         IN  /\ session_state' = run.s
             /\ draws' = run.d
             /\ notice' = RerunNotice(selected)
    /\ since_select' = <<>>
    /\ discarded' = ChatLength(session_state)
    /\ steps' = steps + 1
    /\ AppFrame

\* the button of the i-th idea in the sidebar of the detail page
SidebarSelect ==
    /\ CanAct
    /\ OnDetailPage(session_state)
    /\ \E i \in 0..(Len(session_state["ideas"]) - 1) :
         LET selected == SelectIdea(session_state, i)
             run == Rerun(selected, draws)
         IN  /\ session_state' = run.s
             /\ draws' = run.d
             /\ notice' = RerunNotice(selected)
    /\ since_select' = <<>>
    /\ discarded' = ChatLength(session_state)
    /\ steps' = steps + 1
    /\ AppFrame

\* "Back to Generator"
Back ==
    /\ CanAct
    /\ OnDetailPage(session_state)
    /\ LET run == Rerun(Del(session_state, "selected_idea_index"), draws)
       IN  /\ session_state' = run.s
           /\ draws' = run.d
    /\ notice' = "none"
    /\ steps' = steps + 1
    /\ UNCHANGED <<since_select, discarded>>
    /\ AppFrame

\* "Regenerate Abstract"
RegenerateAbstract ==
    /\ CanAct
    /\ OnDetailPage(session_state)
    /\ LET cache_key == CacheKey("abstract", session_state["selected_idea_index"])
           fresh == Choice(Abstracts(SelectedIdea(session_state).title,
                                     session_state["profile"]), draws)
           run == Rerun(Put(session_state, cache_key, fresh), draws + 1)
       IN  /\ session_state' = run.s
           /\ draws' = run.d
    /\ notice' = "none"
    /\ steps' = steps + 1
    /\ UNCHANGED <<since_select, discarded>>
    /\ AppFrame

\* "Regenerate Takeaways"
RegenerateTakeaways ==
    /\ CanAct
    /\ OnDetailPage(session_state)
    /\ LET cache_key == CacheKey("takeaways", session_state["selected_idea_index"])
           fresh == KeyTakeaways(SelectedIdea(session_state).title,
                                 session_state["profile"], draws)
           run == Rerun(Put(session_state, cache_key, fresh), draws + SAMPLE_SIZE)
       IN  /\ session_state' = run.s
           /\ draws' = run.d
    /\ notice' = "none"
    /\ steps' = steps + 1
    /\ UNCHANGED <<since_select, discarded>>
    /\ AppFrame

\* "Regenerate Fit Analysis"
RegenerateFit ==
    /\ CanAct
    /\ OnDetailPage(session_state)
    /\ LET cache_key == CacheKey("fit", session_state["selected_idea_index"])
           run == Rerun(Put(session_state, cache_key,
                            FitReasons(session_state["profile"])), draws)
       IN  /\ session_state' = run.s
           /\ draws' = run.d
    /\ notice' = "none"
    /\ steps' = steps + 1
    /\ UNCHANGED <<since_select, discarded>>
    /\ AppFrame

\* a prompt typed into the chat input: the user message, the call of
\* chat_with_ai with the transcript, the assistant message; no rerun
ChatInput ==
    /\ CanAct
    /\ OnDetailPage(session_state)
    /\ Len(session_state["chat_messages"]) + 2 <= MaxChat
    /\ \E prompt \in ChatPrompts :
         LET client == GetOpenAIClient(api_key)
             asked == Append(session_state["chat_messages"], Message("user", prompt))
         IN  \E outcome \in IF client = None THEN {NotCalled} ELSE ServiceOutcomes :
               LET response == ChatOutcome(client, outcome).reply
                   answered == Append(asked, Message("assistant", response))
               IN  /\ session_state' = Put(session_state, "chat_messages", answered)
                   /\ since_select' = since_select
                          \o <<Message("user", prompt), Message("assistant", response)>>
    /\ notice' = "none"
    /\ steps' = steps + 1
    /\ UNCHANGED <<draws, discarded>>
    /\ AppFrame

\* one of the four quick prompt buttons: the user message, then st.rerun()
QuickPrompt ==
    /\ CanAct
    /\ OnDetailPage(session_state)
    /\ Len(session_state["chat_messages"]) + 1 <= MaxChat
    /\ \E b \in DOMAIN QuickPrompts(session_state) :
         LET prompt == QuickPrompts(session_state)[b]
             asked == Append(session_state["chat_messages"], Message("user", prompt))
             run == Rerun(Put(session_state, "chat_messages", asked), draws)
         IN  /\ session_state' = run.s
             /\ draws' = run.d
             /\ since_select' = Append(since_select, Message("user", prompt))
    /\ notice' = "none"
    /\ steps' = steps + 1
    /\ UNCHANGED discarded
    /\ AppFrame

NextApp ==
    \/ Generate
    \/ Expand
    \/ SidebarSelect
    \/ Back
    \/ RegenerateAbstract
    \/ RegenerateTakeaways
    \/ RegenerateFit
    \/ ChatInput
    \/ QuickPrompt

SpecApp == InitApp /\ [][NextApp]_vars

\* the transcript alternates user and assistant, from a user message
Alternates(messages) ==
    \A i \in DOMAIN messages :
        messages[i].role = IF i % 2 = 1 THEN "user" ELSE "assistant"

\* whenever an idea is selected it is an idea of the list, with a profile
IndexInRange(s) ==
    OnDetailPage(s) =>
        /\ s["selected_idea_index"] \in 0..(Len(s["ideas"]) - 1)
        /\ Has(s, "profile")

\* C26: in every step of a session, an idea selected afterwards is an idea
\* of the current list (0 <= index < len(ideas)) and the profile is present,
\* no script run ends with an exception, and a step that replaces the list
\* of ideas starts while no idea is selected.
C26_SelectedIndexInRange ==
    [][ /\ IndexInRange(session_state')
        /\ notice' # "exception"
        /\ (Has(session_state', "ideas")
              /\ (~Has(session_state, "ideas")
                    \/ session_state'["ideas"] # session_state["ideas"]))
             => ~Has(session_state, "selected_idea_index") ]_vars

\* The second idea of a list of two is selected after the first one was
\* shown: five steps of a session.
C26_Witness ==
    /\ OnDetailPage(session_state)
    /\ session_state["selected_idea_index"] = 1
    /\ Len(session_state["ideas"]) = 2
    /\ Has(session_state, "abstract_0")
    /\ steps = 5

\* the texts generate_abstract can return for the selected idea
CurrentAbstracts(s) == Range(Abstracts(SelectedIdea(s).title, s["profile"]))

\* the templates generate_key_takeaways samples for the selected idea
CurrentTakeaways(s) ==
    Range(TakeawayTemplates(SelectedIdea(s).title, s["profile"].target_audience))

\* C27: on the detail page the cached abstract is an abstract of the title
\* and profile of the idea now at the selected index, the cached takeaways
\* are takeaways of that title and audience, and the cached fit reasons are
\* those of the current profile.
C27_CachedTextOfCurrentIdea ==
    (pc = "app" /\ OnDetailPage(session_state) /\ notice # "exception") =>
        LET i == session_state["selected_idea_index"]
        IN  /\ session_state[CacheKey("abstract", i)] \in CurrentAbstracts(session_state)
            /\ Range(session_state[CacheKey("takeaways", i)])
                   \subseteq CurrentTakeaways(session_state)
            /\ session_state[CacheKey("fit", i)] = FitReasons(session_state["profile"])

\* C28: a step that shows the warning leaves the session state as it was,
\* and the profile stored with a list of ideas always has an expertise area
\* or an interest, so that no idea has a default topic.
C28_EmptyFormOnlyWarns ==
    [][ /\ notice' = "warning" => session_state' = session_state
        /\ Has(session_state', "ideas") =>
             /\ HasTopics(session_state'["profile"].expertise_areas,
                          session_state'["profile"].interests)
             /\ \A k \in DOMAIN session_state'["ideas"] :
                    session_state'["ideas"][k].topic \notin Range(DEFAULT_TOPICS) ]_vars

\* The warning is shown to a session that holds a list of ideas.
C28_Witness ==
    /\ notice = "warning"
    /\ Has(session_state, "ideas")
    /\ Has(session_state, "profile")

\* C29: on the detail page chat_messages holds exactly the messages appended
\* since the idea shown was selected.
C29_ChatSinceSelection ==
    (pc = "app" /\ OnDetailPage(session_state) /\ notice # "exception") =>
        session_state["chat_messages"] = since_select

\* A selection removed messages, and a message was added after it.
C29_Witness ==
    /\ OnDetailPage(session_state)
    /\ discarded > 0
    /\ since_select # <<>>
    /\ session_state["chat_messages"] = since_select

\* C30: the chat transcript alternates user and assistant messages, from a
\* user message.
C30_TranscriptAlternates ==
    (pc = "app" /\ Has(session_state, "chat_messages")) =>
        Alternates(session_state["chat_messages"])


=============================================================================
